---- MODULE Spec2Model ----
(***************************************************************************)
(* A model of the assert package (src/assert.go).  One test case is one    *)
(* call of an assertion function on a fresh reporting handle (mockTB of    *)
(* src/assert_test.go).  The second version of the package in assert.go    *)
(* (lines 181-367) is the one modelled; formatMsgV1 keeps the first.       *)
(*                                                                         *)
(* A Go value is a record                                                  *)
(*   type  : the dynamic type's name ("nil" for the untyped nil interface) *)
(*   isnil : the reference is nil                                          *)
(*   copy  : which allocation a non-nil reference points to                *)
(*   elems : the payload as naturals (digits, bytes, character codes)      *)
(*   wrap  : the number of fmt.Errorf("wrapped: %w") layers around an error*)
(*   text  : for a string built at run time, its characters                *)
(***************************************************************************)
EXTENDS Integers, Sequences, FiniteSets, TLC

MaxInt == 1
MaxLen == 2
MaxWrap == 1

Ints == 0..MaxInt
\* two allocations tell the same object from an equal one
Copies == {1, 2}

\* The characters text is made of; a string's elems index this sequence.
\* "%v" stands for the two characters of that verb.
\* "wrapped: " is the text fmt.Errorf("wrapped: %w", err) puts before err's.
Alphabet == <<"a", "b", "[", "%v", "wrapped: ">>
Chars == 1..Len(Alphabet)
CharsIn(S) == {c \in Chars : Alphabet[c] \in S}
Letters == CharsIn({"a", "b"})

RECURSIVE SeqsOf(_, _)
SeqsOf(S, n) ==
    IF n = 0 THEN {<<>>}
    ELSE LET shorter == SeqsOf(S, n - 1)
         IN  shorter \cup {Append(s, x) : s \in {t \in shorter : Len(t) = n - 1}, x \in S}

Val(ty, nl, cp, el) ==
    [type |-> ty, isnil |-> nl, copy |-> cp, elems |-> el, wrap |-> 0, text |-> ""]

UntypedNil == Val("nil", TRUE, 0, <<>>)

\* floating-point payload: <<1, 0>> is NaN, <<0, n>> is the number n
Floats == {<<0, n>> : n \in Ints} \cup {<<1, 0>>}
IsNaN(f) == f[1] = 1

ValueTypes == {"int", "int32", "int64"}
SliceTypes == {"[]uint8", "[]int", "[]interface {}"}
NilableTypes == SliceTypes \cup {"*int", "chan int", "func()", "map[string]int", "*assert.eqRef"}

\* a map[string]int over two keys: entry 0 is an absent key, v+1 the value v
MapPayloads == [{1, 2} -> 0..(MaxInt + 1)]
MapLen(m) == Cardinality({k \in DOMAIN m : m[k] # 0})

ScalarValues ==
    {Val(ty, FALSE, 0, <<n>>) : ty \in ValueTypes, n \in Ints}
    \cup {Val("bool", FALSE, 0, <<n>>) : n \in {0, 1}}
    \cup {Val("string", FALSE, 0, s) : s \in SeqsOf(Letters, MaxLen)}
    \cup {Val("float64", FALSE, 0, f) : f \in Floats}

StructValues ==
    {Val("assert.intType", FALSE, 0, <<n>>) : n \in Ints}
    \cup {Val("assert.noisy", FALSE, 0, <<n>> \o f) : n \in Ints, f \in Floats}
    \cup {Val("time.Time", FALSE, 0, <<h, z>>) : h \in Ints, z \in Ints}

NilValues == {UntypedNil} \cup {Val(ty, TRUE, 0, <<>>) : ty \in NilableTypes}

RefValues ==
    {Val(ty, FALSE, c, s) : ty \in SliceTypes, c \in Copies, s \in SeqsOf(Ints, MaxLen)}
    \cup {Val(ty, FALSE, c, <<n>>) : ty \in {"*int", "*assert.eqRef"}, c \in Copies, n \in Ints}
    \cup {Val(ty, FALSE, c, <<>>) : ty \in {"chan int", "func()"}, c \in Copies}
    \cup {Val("map[string]int", FALSE, c, m) : c \in Copies, m \in MapPayloads}

Values == ScalarValues \cup StructValues \cup NilValues \cup RefValues

\* isNil (src/assert.go:334): untyped nil, or a nil chan/func/map/pointer/slice
isNil(v) ==
    IF v.type = "nil" THEN TRUE
    ELSE IF v.type \in NilableTypes THEN v.isnil
    ELSE FALSE


(***************************************************************************)
(* The comparator.                                                         *)
(***************************************************************************)
IsSameObject(x, y) == x = y

Kind(v) ==
    IF v.type \in {"int", "int32", "int64"} THEN "int"
    ELSE IF v.type \in {"assert.intType", "assert.noisy", "time.Time"} THEN "struct"
    ELSE IF v.type \in SliceTypes THEN "slice"
    ELSE IF v.type \in {"*int", "*assert.eqRef"} THEN "ptr"
    ELSE IF v.type = "chan int" THEN "chan"
    ELSE IF v.type = "func()" THEN "func"
    ELSE IF v.type = "map[string]int" THEN "map"
    ELSE v.type

floatEqual(f, g) == f = g /\ ~IsNaN(f)

\* reflect.DeepEqual on two values of one dynamic type
deepValueEqual(x, y) ==
    CASE Kind(x) = "float64" -> floatEqual(x.elems, y.elems)
      [] Kind(x) = "struct" ->
            IF x.type = "assert.noisy"
            THEN x.elems[1] = y.elems[1]
                 /\ floatEqual(SubSeq(x.elems, 2, 3), SubSeq(y.elems, 2, 3))
            ELSE \A i \in 1..Len(x.elems) : x.elems[i] = y.elems[i]
      [] Kind(x) = "ptr" ->
            IF IsSameObject(x, y) THEN TRUE
            ELSE IF x.isnil \/ y.isnil THEN FALSE
            ELSE x.elems = y.elems
      [] Kind(x) = "chan" -> IsSameObject(x, y)
      [] Kind(x) = "func" -> x.isnil /\ y.isnil
      [] Kind(x) = "slice" ->
            IF x.isnil # y.isnil THEN FALSE
            ELSE IF Len(x.elems) # Len(y.elems) THEN FALSE
            ELSE IF IsSameObject(x, y) THEN TRUE
            ELSE \A i \in 1..Len(x.elems) : x.elems[i] = y.elems[i]
      [] Kind(x) = "map" ->
            IF x.isnil # y.isnil THEN FALSE
            ELSE IF x.isnil THEN TRUE
            ELSE IF MapLen(x.elems) # MapLen(y.elems) THEN FALSE
            ELSE IF IsSameObject(x, y) THEN TRUE
            ELSE \A k \in DOMAIN x.elems :
                    x.elems[k] # 0 => (y.elems[k] # 0 /\ x.elems[k] = y.elems[k])
      [] OTHER -> x.elems = y.elems

DeepEqual(x, y) ==
    IF x.type = "nil" \/ y.type = "nil" THEN x.type = y.type
    ELSE IF x.type # y.type THEN FALSE
    ELSE deepValueEqual(x, y)

\* bytes.Equal: a nil argument is equivalent to an empty slice
bytesEqual(a, b) == a.elems = b.elems

\* The Equal methods of the types that have one: noisy and time.Time of the
\* tests, and *assert.eqRef, a pointer type whose Equal(*eqRef) is false on a
\* nil receiver or argument and compares the pointed-to val otherwise.  It
\* stands for the nilable types equaler[T] admits.
noisyEqual(n, other) == n.elems[1] = other.elems[1]

Instant(t) == t.elems[1] - t.elems[2]
timeEqual(t, u) == Instant(t) = Instant(u)

eqRefEqual(p, o) == ~p.isnil /\ ~o.isnil /\ p.elems = o.elems

EqualerTypes == {"assert.noisy", "time.Time", "*assert.eqRef"}

\* the type assertion any(got).(equaler[T])
implementsEqualer(v, ty) == v.type \in EqualerTypes /\ ty = v.type

callEqual(x, y) ==
    CASE x.type = "assert.noisy" -> noisyEqual(x, y)
      [] x.type = "time.Time" -> timeEqual(x, y)
      [] OTHER -> eqRefEqual(x, y)

Verdict(res, rl, pn) == [res |-> res, rule |-> rl, panic |-> pn]

\* isEqual[T] (src/assert.go:315) in its three steps; rule names the step that
\* decided, and res is meaningless when panic is TRUE.
\* The byte-slice special case, then the reflective comparison; the type
\* assertion any(want).([]byte) has no ok result and panics on any other type.
isEqualBytesOrDeep(g, w) ==
    IF g.type = "[]uint8"
    THEN IF w.type = "[]uint8"
         THEN Verdict(bytesEqual(g, w), "bytes", FALSE)
         ELSE Verdict(FALSE, "bytes", TRUE)
    ELSE Verdict(DeepEqual(g, w), "deep", FALSE)

\* isEqual without the Equal method
isEqualEqualer_skipped(ty, g, w) == isEqualBytesOrDeep(g, w)

isEqualEqualer(ty, g, w) ==
    IF implementsEqualer(g, ty) THEN Verdict(callEqual(g, w), "equaler", FALSE)
    ELSE isEqualBytesOrDeep(g, w)

\* isEqual without the double-nil short-circuit
isEqual_noNilRule(ty, g, w) == isEqualEqualer(ty, g, w)

isEqual(ty, g, w) ==
    IF isNil(g) /\ isNil(w) THEN Verdict(TRUE, "nil", FALSE)
    ELSE isEqualEqualer(ty, g, w)

EqText(r) == IF r.panic THEN "panic" ELSE IF r.res THEN "true" ELSE "false"

\* the type arguments Equal[T] can be called with for these two values
StaticTypes(g, w) ==
    {"any"} \cup (IF g.type = w.type /\ g.type # "nil" THEN {g.type} ELSE {})

(***************************************************************************)
(* Errors: a base error under wrap layers of *fmt.wrapError.               *)
(***************************************************************************)
ErrTypes == {"*errors.errorString", "assert.errType"}

Err(ty, cp, msg, k) ==
    [type |-> ty, isnil |-> FALSE, copy |-> cp, elems |-> msg, wrap |-> k, text |-> ""]

ErrValues ==
    {Err("*errors.errorString", c, m, k) : c \in Copies, m \in SeqsOf(Letters, 1), k \in 0..MaxWrap}
    \cup {Err("assert.errType", 0, m, k) : m \in SeqsOf(Letters, 1), k \in 0..MaxWrap}

IsError(v) == v.type \in ErrTypes

\* reflect.Type values: elems holds the index of the type described
DescribedTypes == <<"assert.errType", "*errors.errorString", "*fmt.wrapError", "*fs.PathError", "int">>
TypeDescriptors == {Val("*reflect.rtype", FALSE, 0, <<i>>) : i \in DOMAIN DescribedTypes}
Described(w) == DescribedTypes[w.elems[1]]
ImplementsError(ty) == ty # "int"

DynType(v) == IF v.wrap > 0 THEN "*fmt.wrapError" ELSE v.type

Unwrap(e) == IF e.wrap > 0 THEN [e EXCEPT !.wrap = @ - 1] ELSE UntypedNil

WrapCode == CHOOSE c \in Chars : Alphabet[c] = "wrapped: "

\* err.Error() as character codes
RECURSIVE ErrorCodes(_)
ErrorCodes(e) == IF e.wrap > 0 THEN <<WrapCode>> \o ErrorCodes(Unwrap(e)) ELSE e.elems

(***************************************************************************)
(* Text: what fmt prints for a value under each verb the package uses.     *)
(***************************************************************************)
RECURSIVE StrOf(_)
StrOf(codes) == IF codes = <<>> THEN "" ELSE Alphabet[Head(codes)] \o StrOf(Tail(codes))

GoStr(codes) == Val("string", FALSE, 0, codes)
RtStr(s) == [Val("string", FALSE, 0, <<>>) EXCEPT !.text = s]
StringOf(v) == v.text \o StrOf(v.elems)

RECURSIVE JoinNums(_, _, _)
JoinNums(ns, pre, sep) ==
    IF ns = <<>> THEN ""
    ELSE pre \o ToString(Head(ns)) \o (IF Len(ns) > 1 THEN sep ELSE "") \o JoinNums(Tail(ns), pre, sep)

RECURSIVE JoinMap(_, _, _, _)
JoinMap(m, k, q, sep) ==
    IF k > Len(m) THEN ""
    ELSE LET later == JoinMap(m, k + 1, q, sep)
         IN  IF m[k] = 0 THEN later
             ELSE q \o Alphabet[k] \o q \o ":" \o ToString(m[k] - 1)
                  \o (IF later = "" THEN "" ELSE sep) \o later

FloatText(f) == IF IsNaN(f) THEN "NaN" ELSE ToString(f[2])
BoolText(v) == IF v.elems[1] = 1 THEN "true" ELSE "false"
Addr(v) == "0xc" \o ToString(v.copy) \o JoinNums(v.elems, "", "")
TypeText(v) == IF v.type = "[]uint8" THEN "[]byte" ELSE v.type

\* %T
FmtT(v) == IF v.type = "nil" THEN "<nil>" ELSE DynType(v)

\* %v
FmtV(v) ==
    CASE v.type = "nil" -> "<nil>"
      [] IsError(v) -> StrOf(ErrorCodes(v))
      [] v.type = "*reflect.rtype" -> DescribedTypes[v.elems[1]]
      [] Kind(v) = "int" -> ToString(v.elems[1])
      [] v.type = "bool" -> BoolText(v)
      [] v.type = "string" -> StringOf(v)
      [] v.type = "float64" -> FloatText(v.elems)
      [] v.type = "assert.intType" -> "{" \o ToString(v.elems[1]) \o "}"
      [] v.type = "assert.noisy" ->
            "{" \o ToString(v.elems[1]) \o " " \o FloatText(SubSeq(v.elems, 2, 3)) \o "}"
      [] v.type = "time.Time" ->
            ToString(v.elems[1]) \o ":00:00 +" \o ToString(v.elems[2]) \o "00"
      [] Kind(v) = "slice" -> "[" \o JoinNums(v.elems, "", " ") \o "]"
      [] Kind(v) = "map" -> "map[" \o (IF v.isnil THEN "" ELSE JoinMap(v.elems, 1, "", " ")) \o "]"
      [] v.type = "*assert.eqRef" ->
            IF v.isnil THEN "<nil>" ELSE "&{" \o ToString(v.elems[1]) \o "}"
      [] OTHER -> IF v.isnil THEN "<nil>" ELSE Addr(v)

\* %#v
FmtSharpV(v) ==
    CASE v.type = "nil" -> "<nil>"
      [] v.wrap > 0 -> "&fmt.wrapError{msg:\"" \o StrOf(ErrorCodes(v)) \o "\"}"
      [] v.type = "*errors.errorString" -> "&errors.errorString{s:\"" \o StrOf(v.elems) \o "\"}"
      [] v.type \in {"string", "assert.errType"} -> "\"" \o StringOf(v) \o "\""
      [] Kind(v) = "int" -> ToString(v.elems[1])
      [] v.type = "bool" -> BoolText(v)
      [] v.type = "float64" -> FloatText(v.elems)
      [] v.type = "assert.intType" -> "assert.intType{val:" \o ToString(v.elems[1]) \o "}"
      [] v.type = "assert.noisy" ->
            "assert.noisy{val:" \o ToString(v.elems[1]) \o ", noise:"
            \o FloatText(SubSeq(v.elems, 2, 3)) \o "}"
      [] v.type = "time.Time" ->
            "time.Date(" \o ToString(v.elems[1]) \o ", " \o ToString(v.elems[2]) \o ")"
      [] Kind(v) = "slice" ->
            IF v.isnil THEN TypeText(v) \o "(nil)"
            ELSE TypeText(v) \o "{"
                 \o JoinNums(v.elems, IF v.type = "[]uint8" THEN "0x" ELSE "", ", ") \o "}"
      [] Kind(v) = "map" ->
            IF v.isnil THEN v.type \o "(nil)"
            ELSE v.type \o "{" \o JoinMap(v.elems, 1, "\"", ", ") \o "}"
      [] v.type = "*assert.eqRef" ->
            IF v.isnil THEN "(*assert.eqRef)(nil)"
            ELSE "&assert.eqRef{val:" \o ToString(v.elems[1]) \o "}"
      [] OTHER -> "(" \o v.type \o ")(" \o (IF v.isnil THEN "nil" ELSE Addr(v)) \o ")"

\* %s and %q print a string, or an error through its Error method
HasText(v) == v.type = "string" \/ IsError(v)
TextOf(v) == IF IsError(v) THEN StrOf(ErrorCodes(v)) ELSE StringOf(v)

BadVerb(verb, v) ==
    IF v.type = "nil" THEN "%!" \o verb \o "(<nil>)"
    ELSE "%!" \o verb \o "(" \o FmtT(v) \o "=" \o FmtV(v) \o ")"

FmtS(v) == IF HasText(v) THEN TextOf(v) ELSE BadVerb("s", v)
FmtQ(v) == IF HasText(v) THEN "\"" \o TextOf(v) \o "\"" ELSE BadVerb("q", v)

Verbs == {"%v", "%#v", "%T", "%s", "%q"}

Render(verb, v) ==
    CASE verb = "%v" -> FmtV(v)
      [] verb = "%#v" -> FmtSharpV(v)
      [] verb = "%T" -> FmtT(v)
      [] verb = "%s" -> FmtS(v)
      [] OTHER -> FmtQ(v)

VerbName(verb) ==
    CASE verb = "%v" -> "v"
      [] verb = "%#v" -> "v"
      [] verb = "%T" -> "T"
      [] verb = "%s" -> "s"
      [] OTHER -> "q"

RECURSIVE Extra(_)
Extra(args) ==
    IF args = <<>> THEN ""
    ELSE (IF Head(args).type = "nil" THEN "<nil>"
          ELSE FmtT(Head(args)) \o "=" \o FmtV(Head(args)))
         \o (IF Len(args) > 1 THEN ", " ELSE "") \o Extra(Tail(args))

\* fmt.Sprintf: format is a sequence of literal pieces and verbs
RECURSIVE Sprintf(_, _)
Sprintf(format, args) ==
    IF format = <<>>
    THEN IF args = <<>> THEN "" ELSE "%!(EXTRA " \o Extra(args) \o ")"
    ELSE IF Head(format) \in Verbs
         THEN IF args = <<>>
              THEN "%!" \o VerbName(Head(format)) \o "(MISSING)" \o Sprintf(Tail(format), args)
              ELSE Render(Head(format), Head(args)) \o Sprintf(Tail(format), Tail(args))
         ELSE Head(format) \o Sprintf(Tail(format), args)

\* fmt.Sprint: operands in their %v form, a space between two that are both not strings
RECURSIVE Sprint(_)
Sprint(args) ==
    IF args = <<>> THEN ""
    ELSE FmtV(Head(args))
         \o (IF Len(args) > 1 /\ Head(args).type # "string" /\ args[2].type # "string"
             THEN " " ELSE "")
         \o Sprint(Tail(args))

(***************************************************************************)
(* formatMsg                                                               *)
(***************************************************************************)
Template(s) == [i \in 1..Len(s.elems) |-> Alphabet[s.elems[i]]]

RECURSIVE Concat(_)
Concat(chunks) == IF chunks = <<>> THEN "" ELSE Head(chunks) \o Concat(Tail(chunks))

\* the writes formatMsg makes to its strings.Builder, in order
formatMsgOne(msgAndArgs) ==
    IF msgAndArgs[1].type = "string"
    THEN <<" ", StringOf(msgAndArgs[1])>>
    ELSE <<" ", Sprint(msgAndArgs)>>

formatMsgMany(msgAndArgs) ==
    IF msgAndArgs[1].type = "string"
    THEN <<" ", Sprintf(Template(msgAndArgs[1]), Tail(msgAndArgs))>>
    ELSE <<" ", Sprint(msgAndArgs)>>

\* formatMsg without its case 1: the one string is used as a template
formatMsgWrites_noCaseOne(msgAndArgs) ==
    IF Len(msgAndArgs) = 0 THEN <<>> ELSE formatMsgMany(msgAndArgs)

formatMsgWrites(msgAndArgs) ==
    IF Len(msgAndArgs) = 0 THEN <<>>
    ELSE IF Len(msgAndArgs) = 1 THEN formatMsgOne(msgAndArgs)
    ELSE formatMsgMany(msgAndArgs)

formatMsg(msgAndArgs) == Concat(formatMsgWrites(msgAndArgs))

RECURSIVE Join(_, _)
Join(strs, sep) ==
    IF strs = <<>> THEN ""
    ELSE StringOf(Head(strs)) \o (IF Len(strs) > 1 THEN sep ELSE "") \o Join(Tail(strs), sep)

\* the first version (src/assert.go:169), which takes strings only
formatMsgV1(msg) ==
    IF Len(msg) = 0 THEN ""
    ELSE IF Len(msg[1].elems) = 0 THEN ""
    ELSE " " \o Join(msg, "; ")

(***************************************************************************)
(* The reporting handle: mockTB of src/assert_test.go.  calls lists the    *)
(* report operations the package invoked on it.                            *)
(***************************************************************************)
NewTB == [failed |-> FALSE, fatal |-> FALSE, msg |-> "", helped |-> FALSE, calls |-> <<>>]

mockHelper(m) == [m EXCEPT !.helped = TRUE]
mockErrorf(m, format, args) == [m EXCEPT !.failed = TRUE, !.msg = Sprintf(format, args)]
mockFatalf(m, format, args) == mockErrorf([m EXCEPT !.fatal = TRUE], format, args)

tErrorf(t, format, args) == [mockErrorf(t, format, args) EXCEPT !.calls = Append(@, "Errorf")]
tFatalf(t, format, args) == [mockFatalf(t, format, args) EXCEPT !.calls = Append(@, "Fatalf")]

Outcome(t, pn, rl) == [tb |-> t, panicked |-> pn, rule |-> rl, eq |-> "none"]
Compared(t, r) == [tb |-> t, panicked |-> r.panic, rule |-> r.rule, eq |-> EqText(r)]

Suffix(msgAndArgs) == RtStr(formatMsg(msgAndArgs))

(***************************************************************************)
(* The assertion functions.                                                *)
(***************************************************************************)
True(t, g, msgAndArgs) ==
    LET ht == mockHelper(t)
    IN  IF ~g
        THEN Outcome(tErrorf(ht, <<"got: false; want: true;", "%s">>, <<Suffix(msgAndArgs)>>),
                     FALSE, "none")
        ELSE Outcome(ht, FALSE, "none")

False(t, g, msgAndArgs) ==
    LET ht == mockHelper(t)
    IN  IF g
        THEN Outcome(tErrorf(ht, <<"got: true; want: false;", "%s">>, <<Suffix(msgAndArgs)>>),
                     FALSE, "none")
        ELSE Outcome(ht, FALSE, "none")

NotEqual(t, ty, g, w, msgAndArgs) ==
    LET ht == mockHelper(t)
        r == isEqual(ty, g, w)
    IN  IF r.panic THEN Compared(ht, r)
        ELSE IF r.res
        THEN Compared(tErrorf(ht, <<"got: ", "%#v", "; expected values to be different;", "%s">>,
                              <<g, Suffix(msgAndArgs)>>), r)
        ELSE Compared(ht, r)

\* Equal with the condition of NotEqual
Equal_inverted(t, ty, g, w, msgAndArgs) == NotEqual(t, ty, g, w, msgAndArgs)

Equal(t, ty, g, w, msgAndArgs) ==
    LET ht == mockHelper(t)
        r == isEqual(ty, g, w)
    IN  IF r.panic THEN Compared(ht, r)
        ELSE IF ~r.res
        THEN Compared(tErrorf(ht, <<"got: ", "%#v", "; want: ", "%#v", ";", "%s">>,
                              <<g, w, Suffix(msgAndArgs)>>), r)
        ELSE Compared(ht, r)

Nil(t, g, msgAndArgs) ==
    LET ht == mockHelper(t)
    IN  IF ~isNil(g)
        THEN Outcome(tErrorf(ht, <<"got: ", "%#v", "; want: <nil>;", "%s">>,
                             <<g, Suffix(msgAndArgs)>>), FALSE, "none")
        ELSE Outcome(ht, FALSE, "none")

NotNil(t, g, msgAndArgs) ==
    LET ht == mockHelper(t)
    IN  IF isNil(g)
        THEN Outcome(tErrorf(ht, <<"got: <nil>; expected non-nil;", "%s">>,
                             <<Suffix(msgAndArgs)>>), FALSE, "none")
        ELSE Outcome(ht, FALSE, "none")

\* strings.Contains on character codes
Contains(s, substr) ==
    \E i \in 0..(Len(s) - Len(substr)) : SubSeq(s, i + 1, i + Len(substr)) = substr

\* errors.Is: err or a link of its chain is == target
RECURSIVE errorsIs(_, _)
errorsIs(err, target) ==
    IF err.type = "nil" \/ target.type = "nil" THEN err = target
    ELSE IF err = target THEN TRUE
    ELSE IF err.wrap > 0 THEN errorsIs(Unwrap(err), target)
    ELSE FALSE

\* the chain walk of errors.As: a link whose dynamic type is assignable to ty
RECURSIVE chainHas(_, _)
chainHas(err, ty) ==
    IF DynType(err) = ty THEN TRUE
    ELSE IF err.wrap > 0 THEN chainHas(Unwrap(err), ty)
    ELSE FALSE

\* errors.As(err, target) with target a new(ty); panics when ty is no error type
errorsAs(err, ty) ==
    IF err.type = "nil" THEN Verdict(FALSE, "as", FALSE)
    ELSE IF ~ImplementsError(ty) THEN Verdict(FALSE, "as", TRUE)
    ELSE Verdict(chainHas(err, ty), "as", FALSE)

\* the targets of ErrorAs: a pointer to a variable of each described type
TargetOf(i) == Val("*" \o DescribedTypes[i], FALSE, 1, <<i>>)
Targets == {TargetOf(i) : i \in DOMAIN DescribedTypes}
IsTarget(v) == v \in Targets

\* the link errors.As stores in *target: the first one of the wanted type
RECURSIVE chainFind(_, _)
chainFind(err, ty) ==
    IF DynType(err) = ty THEN err
    ELSE IF err.wrap > 0 THEN chainFind(Unwrap(err), ty)
    ELSE UntypedNil

\* errors.As(err, target) as ErrorAs calls it: false on a nil err, a panic on a
\* target that is nil, no pointer, or a pointer to a type that is no error
errorsAsTarget(err, target) ==
    IF err.type = "nil" THEN Verdict(FALSE, "as", FALSE)
    ELSE IF ~IsTarget(target) THEN Verdict(FALSE, "as", TRUE)
    ELSE errorsAs(err, Described(target))

ErrorAs(t, g, target, msgAndArgs) ==
    LET ht == mockHelper(t)
        sfx == Suffix(msgAndArgs)
    IN  IF g.type = "nil"
        THEN Outcome(tErrorf(ht, <<"got: nil; want assignable to: ", "%T", ";", "%s">>,
                             <<target, sfx>>), FALSE, "nil")
        ELSE LET r == errorsAsTarget(g, target)
             IN  IF r.panic THEN Outcome(ht, TRUE, "as")
                 ELSE IF ~r.res
                 THEN Outcome(tErrorf(ht, <<"got: ", "%v", "#; want assignable to: ", "%T",
                                            "(", "%#v", ");", "%s">>,
                                      <<g, target, sfx>>), FALSE, "as")
                 ELSE Outcome(ht, FALSE, "as")

ErrorIs(t, g, w, msgAndArgs) ==
    LET ht == mockHelper(t)
        sfx == Suffix(msgAndArgs)
    IN  CASE w.type = "nil" ->
                IF g.type # "nil"
                THEN Outcome(tErrorf(ht, <<"unexpected error: ", "%s", ";", "%s">>, <<g, sfx>>),
                             FALSE, "nil")
                ELSE Outcome(ht, FALSE, "nil")
          [] w.type = "string" ->
                IF g.type = "nil" THEN Outcome(ht, TRUE, "string")
                ELSE IF ~Contains(ErrorCodes(g), w.elems)
                THEN Outcome(tErrorf(ht, <<"got: ", "%q", "; want: ", "%q", ";", "%s">>,
                                     <<g, w, sfx>>), FALSE, "string")
                ELSE Outcome(ht, FALSE, "string")
          [] IsError(w) ->
                IF ~errorsIs(g, w)
                THEN IF isNil(g)
                     THEN Outcome(tErrorf(ht, <<"got: <nil>; want: ", "%T", "(", "%v", ");", "%s">>,
                                          <<w, w, sfx>>), FALSE, "error")
                     ELSE Outcome(tErrorf(ht, <<"got: ", "%T", "(", "%v", "); want: ",
                                                "%T", "(", "%v", ");", "%s">>,
                                          <<g, g, w, w, sfx>>), FALSE, "error")
                ELSE Outcome(ht, FALSE, "error")
          [] w.type = "*reflect.rtype" ->
                LET r == errorsAs(g, Described(w))
                IN  IF r.panic THEN Outcome(ht, TRUE, "type")
                    ELSE IF ~r.res
                    THEN Outcome(tErrorf(ht, <<"got: ", "%T", "; want: ", "%v", ";", "%s">>,
                                         <<g, w, sfx>>), FALSE, "type")
                    ELSE Outcome(ht, FALSE, "type")
          [] OTHER ->
                Outcome(tFatalf(ht, <<"unsupported want type: ", "%T">>, <<w>>), FALSE, "default")

\* regexp.MatchString on patterns over Alphabet: "[" opens a class that nothing
\* closes, every other character matches itself
BracketCode == CHOOSE c \in Chars : Alphabet[c] = "["
ParseFails(pattern) == \E i \in 1..Len(pattern) : pattern[i] = BracketCode
FirstBracket(pattern) == CHOOSE i \in 1..Len(pattern) :
    pattern[i] = BracketCode /\ \A j \in 1..(i - 1) : pattern[j] # BracketCode
\* the text of the error, without the back quotes Go puts around the fragment
ParseError(pattern) ==
    "error parsing regexp: missing closing ]: "
    \o StrOf(SubSeq(pattern, FirstBracket(pattern), Len(pattern)))

regexpMatchString(pattern, s) ==
    IF ParseFails(pattern) THEN [matched |-> FALSE, err |-> ParseError(pattern)]
    ELSE [matched |-> Contains(s, pattern), err |-> ""]

\* the second if of MatchesRegexp
reportMatch(t, matched, g, pattern, msgAndArgs) ==
    IF ~matched
    THEN Outcome(tErrorf(t, <<"got: ", "%q", "; want to match ", "%q", ";", "%s">>,
                         <<g, pattern, Suffix(msgAndArgs)>>), FALSE, "match")
    ELSE Outcome(t, FALSE, "match")

\* MatchesRegexp without the return after Fatalf
MatchesRegexp_noReturn(t, g, pattern, msgAndArgs) ==
    LET ht == mockHelper(t)
        m == regexpMatchString(pattern.elems, g.elems)
    IN  reportMatch(IF m.err # ""
                    THEN tFatalf(ht, <<"unable to parse regexp pattern ", "%s", ": ", "%s">>,
                                 <<pattern, RtStr(m.err)>>)
                    ELSE ht,
                    m.matched, g, pattern, msgAndArgs)

MatchesRegexp(t, g, pattern, msgAndArgs) ==
    LET ht == mockHelper(t)
        m == regexpMatchString(pattern.elems, g.elems)
    IN  IF m.err # ""
        THEN Outcome(tFatalf(ht, <<"unable to parse regexp pattern ", "%s", ": ", "%s">>,
                             <<pattern, RtStr(m.err)>>), FALSE, "parse")
        ELSE reportMatch(ht, m.matched, g, pattern, msgAndArgs)

(***************************************************************************)
(* The state: one test case at a time.                                     *)
(***************************************************************************)
MaxArgs == 2

Templates == {GoStr(s) : s \in SeqsOf(CharsIn({"a", "%v"}), MaxLen)}
Patterns == {GoStr(s) : s \in SeqsOf(CharsIn({"a", "b", "["}), MaxLen)}
Subjects == {GoStr(s) : s \in SeqsOf(Letters, MaxLen)}
FmtArgs == Templates \cup {Val("int", FALSE, 0, <<n>>) : n \in Ints} \cup {UntypedNil}
ArgLists == SeqsOf(FmtArgs, MaxArgs)

\* the trailing arguments the assertions are called with
Extras == {<<>>, <<GoStr(<<1>>)>>}

ErrOrNil == ErrValues \cup {UntypedNil}
Unsupported == {v \in Values : v.type \in {"int", "bool", "*int", "[]uint8"}}
Wants == {UntypedNil} \cup {GoStr(s) : s \in SeqsOf(CharsIn({"a", "b", "wrapped: "}), MaxLen)}
         \cup ErrValues
         \cup TypeDescriptors \cup Unsupported

AsTargets == Targets \cup {UntypedNil, Err("assert.errType", 0, <<>>, 0)}

\* tb2 is the second handle of a test case that makes two calls
VARIABLES pc, op, T, got, want, extra, tb, tb2, panicked, rule, eq, ret

vars == <<pc, op, T, got, want, extra, tb, tb2, panicked, rule, eq, ret>>

Init ==
    /\ pc = "idle"
    /\ op = "none"
    /\ T = "any"
    /\ got = UntypedNil
    /\ want = UntypedNil
    /\ extra = <<>>
    /\ tb = NewTB
    /\ tb2 = NewTB
    /\ panicked = FALSE
    /\ rule = "none"
    /\ eq = "none"
    /\ ret = <<>>

\* the next test case starts on a fresh handle
NewTest ==
    /\ pc = "done"
    /\ pc' = "idle"
    /\ op' = "none"
    /\ T' = "any"
    /\ got' = UntypedNil
    /\ want' = UntypedNil
    /\ extra' = <<>>
    /\ tb' = NewTB
    /\ tb2' = NewTB
    /\ panicked' = FALSE
    /\ rule' = "none"
    /\ eq' = "none"
    /\ ret' = <<>>

Called(name, ty, g, w, x, out) ==
    /\ pc' = "done"
    /\ op' = name
    /\ T' = ty
    /\ got' = g
    /\ want' = w
    /\ extra' = x
    /\ tb' = out.tb
    /\ tb2' = tb2
    /\ panicked' = out.panicked
    /\ rule' = out.rule
    /\ eq' = out.eq
    /\ ret' = <<>>

Bool(b) == Val("bool", FALSE, 0, <<IF b THEN 1 ELSE 0>>)

DoTrue ==
    /\ pc = "idle"
    /\ \E g \in BOOLEAN, x \in Extras :
          Called("True", "bool", Bool(g), UntypedNil, x, True(tb, g, x))

DoFalse ==
    /\ pc = "idle"
    /\ \E g \in BOOLEAN, x \in Extras :
          Called("False", "bool", Bool(g), UntypedNil, x, False(tb, g, x))

DoEqual ==
    /\ pc = "idle"
    /\ \E g \in Values, w \in Values, x \in Extras :
          \E ty \in StaticTypes(g, w) :
             Called("Equal", ty, g, w, x, Equal(tb, ty, g, w, x))

DoNotEqual ==
    /\ pc = "idle"
    /\ \E g \in Values, w \in Values, x \in Extras :
          \E ty \in StaticTypes(g, w) :
             Called("NotEqual", ty, g, w, x, NotEqual(tb, ty, g, w, x))

\* the body of the loops of TestEqual: Equal on one fresh handle, then NotEqual
\* on another, both without trailing arguments; a panic in Equal unwinds the
\* test before NotEqual is called
DoEqualNotEqual ==
    /\ pc = "idle"
    /\ \E g \in Values, w \in Values, x \in {<<>>} :
          \E ty \in StaticTypes(g, w) :
             LET first == Equal(tb, ty, g, w, x)
                 second == NotEqual(tb2, ty, g, w, x)
             IN  /\ pc' = "done"
                 /\ op' = "EqualNotEqual"
                 /\ T' = ty
                 /\ got' = g
                 /\ want' = w
                 /\ extra' = x
                 /\ tb' = first.tb
                 /\ tb2' = IF first.panicked THEN tb2 ELSE second.tb
                 /\ panicked' = first.panicked
                 /\ rule' = first.rule
                 /\ eq' = first.eq
                 /\ ret' = <<>>

DoNil ==
    /\ pc = "idle"
    /\ \E g \in Values, x \in Extras :
          Called("Nil", "any", g, UntypedNil, x, Nil(tb, g, x))

DoNotNil ==
    /\ pc = "idle"
    /\ \E g \in Values, x \in Extras :
          Called("NotNil", "any", g, UntypedNil, x, NotNil(tb, g, x))

DoErrorIs ==
    /\ pc = "idle"
    /\ \E g \in ErrOrNil, w \in Wants, x \in Extras :
          Called("ErrorIs", "any", g, w, x, ErrorIs(tb, g, w, x))

\* what errors.As left in *target is kept in ret
DoErrorAs ==
    /\ pc = "idle"
    /\ \E g \in ErrOrNil, w \in AsTargets, x \in Extras :
          LET out == ErrorAs(tb, g, w, x)
          IN  /\ pc' = "done"
              /\ op' = "ErrorAs"
              /\ T' = "any"
              /\ got' = g
              /\ want' = w
              /\ extra' = x
              /\ tb' = out.tb
              /\ tb2' = tb2
              /\ panicked' = out.panicked
              /\ rule' = out.rule
              /\ eq' = out.eq
              /\ ret' = IF g.type # "nil" /\ ~out.panicked /\ ~out.tb.failed
                         THEN <<chainFind(g, Described(w))>> ELSE <<>>

DoMatchesRegexp ==
    /\ pc = "idle"
    /\ \E g \in Subjects, p \in Patterns, x \in Extras :
          Called("MatchesRegexp", "string", g, p, x, MatchesRegexp(tb, g, p, x))

DoFormatMsg ==
    /\ pc = "idle"
    /\ \E x \in ArgLists :
          /\ pc' = "done"
          /\ op' = "formatMsg"
          /\ extra' = x
          /\ ret' = formatMsgWrites(x)
          /\ UNCHANGED <<T, got, want, tb, tb2, panicked, rule, eq>>

DoFormatMsgV1 ==
    /\ pc = "idle"
    /\ \E x \in SeqsOf(Templates, MaxArgs) :
          /\ pc' = "done"
          /\ op' = "formatMsgV1"
          /\ extra' = x
          /\ ret' = <<formatMsgV1(x)>>
          /\ UNCHANGED <<T, got, want, tb, tb2, panicked, rule, eq>>

Next ==
    \/ NewTest
    \/ DoTrue
    \/ DoFalse
    \/ DoEqual
    \/ DoNotEqual
    \/ DoEqualNotEqual
    \/ DoNil
    \/ DoNotNil
    \/ DoErrorIs
    \/ DoErrorAs
    \/ DoMatchesRegexp
    \/ DoFormatMsg
    \/ DoFormatMsgV1

Spec == Init /\ [][Next]_vars
(***************************************************************************)
(* The claims.                                                             *)
(***************************************************************************)
Compares == pc = "done" /\ op \in {"Equal", "NotEqual"}
BothNil == isNil(got) /\ isNil(want)

\* C1: whenever isEqual(got, want) is false, Equal records a failure on the
\* handle and that failure is fatal (Fatal or Fatalf was invoked).
C1_EqualMismatchIsFatal ==
    (pc = "done" /\ op = "Equal" /\ eq = "false") => (tb.failed /\ tb.fatal)

\* C2: ErrorIs(nil, nil) reports nothing; ErrorIs(some error, nil) and
\* ErrorIs(nil, some error) record a fatal failure; every mismatch ErrorIs
\* detects is reported through the fatal path.
C2_ErrorIsMismatchIsFatal ==
    (pc = "done" /\ op = "ErrorIs" /\ ~panicked) =>
        /\ (got.type = "nil" /\ want.type = "nil") => ~tb.failed
        /\ (got.type # "nil" /\ want.type = "nil") => (tb.failed /\ tb.fatal)
        /\ (got.type = "nil" /\ IsError(want)) => (tb.failed /\ tb.fatal)
        /\ tb.failed => tb.fatal

\* C3: ErrorIs with got nil and want a non-empty plain string reports exactly
\* one failure and returns normally, without a panic.
C3_NilGotStringWantIsMismatch ==
    (pc = "done" /\ op = "ErrorIs" /\ got.type = "nil"
        /\ want.type = "string" /\ want.elems # <<>>) =>
        (~panicked /\ Len(tb.calls) = 1 /\ tb.failed)

\* C4: on two byte sequences isEqual is true exactly when the lengths agree
\* and the elements are pairwise equal, except that a nil and an empty non-nil
\* byte sequence are not equal; two nil byte sequences are equal.
C4_ByteSequences ==
    (Compares /\ got.type = "[]uint8" /\ want.type = "[]uint8") =>
        (eq = "true" <=>
            /\ Len(got.elems) = Len(want.elems)
            /\ \A i \in 1..Len(got.elems) : got.elems[i] = want.elems[i]
            /\ got.isnil = want.isnil)

\* C5 as written: for every value v, Equal(t, v, v) reports no failure and
\* NotEqual(t, v, v) reports a failure.
C5_Reflexive_Original ==
    (Compares /\ got = want) => (tb.failed <=> op = "NotEqual")

\* a floating-point NaN held by value, or a non-nil function value
HoldsNaN(v) ==
    \/ v.type = "float64" /\ IsNaN(v.elems)
    \/ v.type = "assert.noisy" /\ IsNaN(SubSeq(v.elems, 2, 3))
Irreflexive(v) == HoldsNaN(v) \/ (v.type = "func()" /\ ~v.isnil)

\* C5: for every value v, Equal(t, v, v) reports no failure and
\* NotEqual(t, v, v) reports a failure, unless v is compared structurally and
\* is a non-nil function value or holds a floating-point NaN by value.
C5_Reflexive ==
    (Compares /\ got = want /\ ~(rule = "deep" /\ Irreflexive(got))) =>
        (~panicked /\ (tb.failed <=> op = "NotEqual"))

C5_Witness ==
    /\ pc = "done" /\ op = "NotEqual" /\ got = want
    /\ got.type = "float64" /\ ~IsNaN(got.elems)
    /\ tb.failed

\* C6: when got and want are not both nil, got has no Equal capability and
\* the dynamic types differ, isEqual returns false and returns normally.
C6_DifferentDynamicTypes ==
    (Compares /\ ~BothNil /\ ~implementsEqualer(got, T) /\ got.type # want.type) =>
        eq = "false"

\* C7: when got and want both satisfy isNil, isEqual is true whatever their
\* dynamic types and before any Equal capability of got is consulted; isNil is
\* false for every value type and every non-nil reference.
C7_DoubleNil ==
    /\ (Compares /\ got.isnil /\ want.isnil) => (eq = "true" /\ rule = "nil")
    /\ (pc = "done" /\ op = "Nil") => (tb.failed <=> ~got.isnil)
    /\ (pc = "done" /\ op = "NotNil") => (tb.failed <=> got.isnil)

C7_Witness ==
    /\ pc = "done" /\ op = "Equal" /\ T = "*assert.eqRef"
    /\ got.isnil /\ want.isnil /\ ~eqRefEqual(got, want)
    /\ eq = "true" /\ ~tb.failed

\* C8: when got and want are not both nil and got has an Equal method over
\* the static type, isEqual returns that method's result and no other rule
\* decides: values that differ only in a field the method ignores are equal,
\* and two times of one instant in different zones are equal.
C8_SelfDescribingEquality ==
    (Compares /\ ~BothNil /\ T = got.type) =>
        /\ got.type \in EqualerTypes => rule = "equaler"
        /\ got.type = "assert.noisy" => (eq = "true" <=> got.elems[1] = want.elems[1])
        /\ got.type = "time.Time" =>
              (eq = "true" <=> got.elems[1] - got.elems[2] = want.elems[1] - want.elems[2])
        /\ got.type = "*assert.eqRef" =>
              (eq = "true" <=> (~got.isnil /\ ~want.isnil /\ got.elems = want.elems))

C8_Witness ==
    /\ pc = "done" /\ op = "Equal" /\ T = "time.Time"
    /\ got.elems[2] # want.elems[2]
    /\ eq = "true" /\ ~tb.failed

\* the template with its k-th verb replaced by the %v form of the k-th argument
RECURSIVE Substituted(_, _)
Substituted(template, args) ==
    IF template = <<>> THEN ""
    ELSE IF Head(template) = "%v"
         THEN FmtV(Head(args)) \o Substituted(Tail(template), Tail(args))
         ELSE Head(template) \o Substituted(Tail(template), args)

VerbCount(template) == Cardinality({i \in DOMAIN template : template[i] = "%v"})

C10_CallerMisuse ==
    /\ (pc = "done" /\ op = "MatchesRegexp" /\ ParseFails(want.elems)) =>
          /\ tb.calls = <<"Fatalf">> /\ tb.fatal /\ ~panicked
          /\ tb.msg = "unable to parse regexp pattern " \o StrOf(want.elems) \o ": "
                      \o ParseError(want.elems)
    /\ (pc = "done" /\ op = "ErrorIs"
          /\ want.type \notin {"nil", "string", "*reflect.rtype"} /\ ~IsError(want)) =>
          /\ tb.calls = <<"Fatalf">> /\ tb.fatal /\ ~panicked
          /\ tb.msg = "unsupported want type: " \o want.type

C10_Witness ==
    /\ pc = "done" /\ op = "MatchesRegexp" /\ ParseFails(want.elems)
    /\ Len(want.elems) > 1 /\ tb.fatal
\* C11: ErrorAs reports nothing iff got is non-nil and its chain holds a value
\* assignable to target's type; on a nil got it reports exactly one nonfatal
\* failure "got: nil; want assignable to: {targetType};" + suffix; on any other
\* mismatch exactly one nonfatal failure "got: {got}; want assignable to:
\* {targetType}({target!r});" + suffix, every placeholder filled by its
\* argument and the suffix last.
C11_ErrorAs ==
    (pc = "done" /\ op = "ErrorAs" /\ ~panicked) =>
        /\ tb.calls = <<>> <=> (got.type # "nil" /\ chainHas(got, Described(want)))
        /\ tb.calls # <<>> => (tb.calls = <<"Errorf">> /\ tb.failed /\ ~tb.fatal)
        /\ (tb.calls # <<>> /\ got.type = "nil") =>
              tb.msg = "got: nil; want assignable to: " \o FmtT(want) \o ";"
                       \o formatMsg(extra)
        /\ (tb.calls # <<>> /\ got.type # "nil") =>
              tb.msg = "got: " \o FmtV(got) \o "; want assignable to: " \o FmtT(want)
                       \o "(" \o FmtSharpV(want) \o ");" \o formatMsg(extra)
\* C12: Equal and NotEqual are exact complements: on two fresh handles and the
\* same got and want exactly one of the two records a failure, each call
\* reports at most once, and a call whose success condition holds invokes no
\* report operation.
C12_ExactComplements ==
    (pc = "done" /\ op = "EqualNotEqual") =>
        /\ tb.failed # tb2.failed
        /\ Len(tb.calls) <= 1 /\ Len(tb2.calls) <= 1
        /\ ~tb.failed => tb.calls = <<>>
        /\ ~tb2.failed => tb2.calls = <<>>
====
